---- MODULE Spec2Model ----
(***************************************************************************)
(* AttentionTracker (src/src/attention_tracker.py): the temporal           *)
(* attention-state tracker.  One tracker object, its constructor, and its  *)
(* four methods classify_attention, update, reset and get_statistics.      *)
(*                                                                         *)
(* Time is counted in whole seconds; time.time() is an input of the        *)
(* constructor, of update and of reset, and it is not monotonic.           *)
(* A float ratio a / b is kept as the pair [num |-> a, den |-> b].         *)
(* Python's None is the empty tuple, a present number v is <<v>>.          *)
(***************************************************************************)
EXTENDS Integers, Sequences, FiniteSets

\* ------------------------------------------------------------------ bounds
MaxWindow == 3
MaxConsecutive == 3
MaxTime == 2
MaxFrames == 5
MaxFramesHz == 10

\* ------------------------------------------------- config/settings.py
ALERT_THRESHOLD == 5
YAW_THRESHOLD == 25
PITCH_THRESHOLD == 20
SMOOTHING_WINDOW == 5
MIN_CONSECUTIVE_FRAMES == 3

VARIABLES
    \* configuration (attention_tracker.py:16-20)
    alert_threshold, yaw_threshold, pitch_threshold,
    smoothing_window, min_consecutive_frames,
    \* state (attention_tracker.py:23-26)
    current_state, previous_state, state_buffer, consecutive_count,
    \* time tracking (attention_tracker.py:29-31)
    time_not_looking, last_update_time, alert_active,
    \* statistics (attention_tracker.py:34-36)
    total_frames, frames_looking, frames_not_looking,
    \* the caller's view: whether the constructor returned an object, the
    \* last call made, what it returned or raised, and update's local
    \* smoothed_state
    constructed, op, ret, smoothed_state,
    \* the arguments of the last direct classify_attention call
    classify_args,
    \* observers of the call history since construction or the last reset
    h_n,            \* number of update calls
    h_same_run,     \* length of the current run of equal raw classifications
    h_diff_run,     \* length of the current run of updates whose smoothed
                    \* value differed from the state, the state not changing
    h_prev_diff,    \* h_diff_run as it was before the last update
    h_alt,          \* changes of the returned state so far while the raw
                    \* classifications have strictly alternated, else -1
    h_absent,       \* number of updates if all were update(None, None),
                    \* else -1
    h_changed,      \* the last update changed current_state
    h_last_raw,     \* the raw classification of the last update, or "none"
    h_prev_alert,   \* alert_active as it was before the last update
    h_away,         \* 0, or 1 + total_frames as it was when the caller
                    \* entered the phase in which every update has a
                    \* not_looking raw classification and a positive
                    \* delta_time (SpecAway only)
    h_dwell,        \* number of updates since the last one that changed
                    \* current_state
    h_log,          \* [on, raws]: when on (SpecTraced only), raws is the
                    \* sequence of the raw classifications of the updates
    \* what time.time() returned to the last call that read it (__init__,
    \* update or reset)
    h_clock,
    \* no update since construction or the last reset has read a clock
    \* earlier than the call before it did
    h_nonneg,
    \* calls in progress when a host runs update and get_statistics on two
    \* threads (SpecInterleaved only): the locals <<confidence, raw_state>>
    \* of an update that has run line 104, the values a get_statistics has
    \* read so far, and the counters as they were when it began
    in_update, in_stats, h_held

config == <<alert_threshold, yaw_threshold, pitch_threshold,
            smoothing_window, min_consecutive_frames>>
tracking == <<current_state, previous_state, state_buffer, consecutive_count,
              time_not_looking, last_update_time, alert_active>>
statistics == <<total_frames, frames_looking, frames_not_looking>>
history == <<h_n, h_same_run, h_diff_run, h_prev_diff, h_alt, h_absent,
             h_changed, h_last_raw, h_prev_alert, h_away, h_dwell, h_log>>
calls == <<in_update, in_stats, h_held>>
vars == <<config, tracking, statistics, constructed, op, ret, smoothed_state,
          classify_args, history, h_clock, h_nonneg, calls>>

\* ------------------------------------------------------------- values
None == <<>>
\* no get_statistics has run yet: no value is held for any field
NotHeld ==
    [total_frames |-> {}, frames_looking |-> {}, frames_not_looking |-> {},
     attention_ratio |-> {}, current_state |-> {}, time_not_looking |-> {},
     alert_active |-> {}]
Some(v) == <<v>>
Abs(x) == IF x < 0 THEN -x ELSE x
States == {"looking", "not_looking"}
NoneRet == [type |-> "None"]
Raised(e) == [type |-> "exception", exception |-> e]
Ratio(a, b) == [num |-> a, den |-> b]
\* x > 1/2 for a ratio with a positive denominator
RatioGtHalf(r) == 2 * r.num > r.den

RECURSIVE Count(_, _)
Count(s, v) ==
    IF s = <<>> THEN 0
    ELSE (IF Head(s) = v THEN 1 ELSE 0) + Count(Tail(s), v)

\* a full buffer that gives up its newest entry for the new one
DequeAppendEvictNewest(buf, x, n) ==
    IF n = 0 THEN buf
    ELSE IF Len(buf) >= n THEN Append(SubSeq(buf, 1, Len(buf) - 1), x)
    ELSE Append(buf, x)

\* collections.deque(maxlen = n).append(x)
DequeAppend(buf, x, n) ==
    IF n = 0 THEN buf
    ELSE IF Len(buf) >= n THEN Append(Tail(buf), x)
    ELSE Append(buf, x)

\* ------------------------------------------------- classify_attention
ClassifyNonStrict(yaw, pitch, yt, pt) ==
    IF yaw = None \/ pitch = None THEN "not_looking"
    ELSE IF Abs(yaw[1]) <= yt /\ Abs(pitch[1]) <= pt
         THEN "looking" ELSE "not_looking"

Classify(yaw, pitch, yt, pt) ==
    IF yaw = None \/ pitch = None THEN "not_looking"
    ELSE IF Abs(yaw[1]) < yt /\ Abs(pitch[1]) < pt
         THEN "looking" ELSE "not_looking"

classify_attention(yaw, pitch) ==
    Classify(yaw, pitch, yaw_threshold, pitch_threshold)

\* ------------------------------------------------------------- update
\* lines 69-71: the vote is taken and divides by zero
VoteDividesByLookingOverNotLooking(buf, window) ==
    Len(buf) >= window /\ Count(buf, "not_looking") = 0

VoteDividesByZero(buf, window) ==
    Len(buf) >= window /\ Len(buf) = 0

\* lines 68-75: the smoothed state and the confidence, from the buffer after
\* the append; called only when the division of line 71 is defined
SmoothWaitForWindow(buf, raw_state, window) ==
    IF Len(buf) >= window
    THEN LET looking_count == Count(buf, "looking")
             confidence == Ratio(looking_count, Len(buf))
         IN [smoothed_state |-> IF RatioGtHalf(confidence)
                                THEN "looking" ELSE "not_looking",
             confidence |-> confidence]
    ELSE [smoothed_state |-> "looking", confidence |-> Ratio(1, 1)]

SmoothTieLooking(buf, raw_state, window) ==
    IF Len(buf) >= window
    THEN LET looking_count == Count(buf, "looking")
             confidence == Ratio(looking_count, Len(buf))
         IN [smoothed_state |-> IF 2 * confidence.num >= confidence.den
                                THEN "looking" ELSE "not_looking",
             confidence |-> confidence]
    ELSE [smoothed_state |-> raw_state,
          confidence |-> IF raw_state = "looking"
                         THEN Ratio(1, 1) ELSE Ratio(0, 1)]

\* the vote taken over whatever the buffer holds, full or not
SmoothVoteAlways(buf, raw_state, window) ==
    LET looking_count == Count(buf, "looking")
        confidence == Ratio(looking_count, Len(buf))
    IN [smoothed_state |-> IF RatioGtHalf(confidence)
                           THEN "looking" ELSE "not_looking",
        confidence |-> confidence]

Smooth(buf, raw_state, window) ==
    IF Len(buf) >= window
    THEN LET looking_count == Count(buf, "looking")
             confidence == Ratio(looking_count, Len(buf))
         IN [smoothed_state |-> IF RatioGtHalf(confidence)
                                THEN "looking" ELSE "not_looking",
             confidence |-> confidence]
    ELSE [smoothed_state |-> raw_state,
          confidence |-> IF raw_state = "looking"
                         THEN Ratio(1, 1) ELSE Ratio(0, 1)]

\* lines 77-95: the debounce; `confirmed` tells whether line 87 ran
DebounceNoLatchReset(smoothed, cur, prev, cnt, minc) ==
    IF smoothed # cur
    THEN LET c == IF smoothed = prev THEN cnt + 1 ELSE 1
         IN IF c >= minc
            THEN [current_state |-> smoothed, previous_state |-> smoothed,
                  consecutive_count |-> 0, confirmed |-> TRUE]
            ELSE [current_state |-> cur, previous_state |-> smoothed,
                  consecutive_count |-> c, confirmed |-> FALSE]
    ELSE [current_state |-> cur, previous_state |-> prev,
          consecutive_count |-> cnt, confirmed |-> FALSE]

DebounceStrictlyMore(smoothed, cur, prev, cnt, minc) ==
    IF smoothed # cur
    THEN LET c == IF smoothed = prev THEN cnt + 1 ELSE 1
         IN IF c > minc
            THEN [current_state |-> smoothed, previous_state |-> smoothed,
                  consecutive_count |-> 0, confirmed |-> TRUE]
            ELSE [current_state |-> cur, previous_state |-> smoothed,
                  consecutive_count |-> c, confirmed |-> FALSE]
    ELSE [current_state |-> cur, previous_state |-> smoothed,
          consecutive_count |-> 0, confirmed |-> FALSE]

DebounceImmediate(smoothed, cur, prev, cnt, minc) ==
    IF smoothed # cur
    THEN [current_state |-> smoothed, previous_state |-> smoothed,
          consecutive_count |-> 0, confirmed |-> TRUE]
    ELSE [current_state |-> cur, previous_state |-> smoothed,
          consecutive_count |-> 0, confirmed |-> FALSE]

DebounceKeepPending(smoothed, cur, prev, cnt, minc) ==
    IF smoothed # cur
    THEN LET c == IF smoothed = prev THEN cnt + 1 ELSE 1
         IN IF c >= minc
            THEN [current_state |-> smoothed, previous_state |-> smoothed,
                  consecutive_count |-> 0, confirmed |-> TRUE]
            ELSE [current_state |-> cur, previous_state |-> smoothed,
                  consecutive_count |-> c, confirmed |-> FALSE]
    ELSE [current_state |-> cur, previous_state |-> prev,
          consecutive_count |-> 0, confirmed |-> FALSE]

Debounce(smoothed, cur, prev, cnt, minc) ==
    IF smoothed # cur
    THEN LET c == IF smoothed = prev THEN cnt + 1 ELSE 1
         IN IF c >= minc
            THEN [current_state |-> smoothed, previous_state |-> smoothed,
                  consecutive_count |-> 0, confirmed |-> TRUE]
            ELSE [current_state |-> cur, previous_state |-> smoothed,
                  consecutive_count |-> c, confirmed |-> FALSE]
    ELSE [current_state |-> cur, previous_state |-> smoothed,
          consecutive_count |-> 0, confirmed |-> FALSE]

\* lines 90-92 and 97-101: the timer and the alert, from their values before
\* the call, the state after the debounce and whether it was just confirmed
TimerKeepAlert(cur, confirmed, tnl, alert, delta_time, threshold) ==
    LET t0 == IF confirmed /\ cur = "looking" THEN 0 ELSE tnl
    IN IF cur = "not_looking"
       THEN [time_not_looking |-> t0 + delta_time,
             alert_active |-> (alert \/ t0 + delta_time >= threshold)]
       ELSE [time_not_looking |-> t0, alert_active |-> alert]

TimerAssign(cur, confirmed, tnl, alert, delta_time, threshold) ==
    LET t0 == IF confirmed /\ cur = "looking" THEN 0 ELSE tnl
        a0 == IF confirmed /\ cur = "looking" THEN FALSE ELSE alert
    IN IF cur = "not_looking"
       THEN [time_not_looking |-> delta_time,
             alert_active |-> (a0 \/ delta_time >= threshold)]
       ELSE [time_not_looking |-> t0, alert_active |-> a0]

\* the timer started on the update after the one that confirmed not_looking
TimerSkipConfirm(cur, confirmed, tnl, alert, delta_time, threshold) ==
    LET t0 == IF confirmed /\ cur = "looking" THEN 0 ELSE tnl
        a0 == IF confirmed /\ cur = "looking" THEN FALSE ELSE alert
    IN IF cur = "not_looking" /\ ~confirmed
       THEN [time_not_looking |-> t0 + delta_time,
             alert_active |-> (a0 \/ t0 + delta_time >= threshold)]
       ELSE [time_not_looking |-> t0, alert_active |-> a0]

\* the alert raised only once the timer has passed the threshold
TimerStrictThreshold(cur, confirmed, tnl, alert, delta_time, threshold) ==
    LET t0 == IF confirmed /\ cur = "looking" THEN 0 ELSE tnl
        a0 == IF confirmed /\ cur = "looking" THEN FALSE ELSE alert
    IN IF cur = "not_looking"
       THEN [time_not_looking |-> t0 + delta_time,
             alert_active |-> (a0 \/ t0 + delta_time > threshold)]
       ELSE [time_not_looking |-> t0, alert_active |-> a0]

\* the timer running whatever the state
TimerCountsWhileLooking(cur, confirmed, tnl, alert, delta_time, threshold) ==
    LET t0 == IF confirmed /\ cur = "looking" THEN 0 ELSE tnl
        a0 == IF confirmed /\ cur = "looking" THEN FALSE ELSE alert
    IN [time_not_looking |-> t0 + delta_time,
        alert_active |-> (a0 \/ (cur = "not_looking"
                                  /\ t0 + delta_time >= threshold))]

Timer(cur, confirmed, tnl, alert, delta_time, threshold) ==
    LET t0 == IF confirmed /\ cur = "looking" THEN 0 ELSE tnl
        a0 == IF confirmed /\ cur = "looking" THEN FALSE ELSE alert
    IN IF cur = "not_looking"
       THEN [time_not_looking |-> t0 + delta_time,
             alert_active |-> (a0 \/ t0 + delta_time >= threshold)]
       ELSE [time_not_looking |-> t0, alert_active |-> a0]

\* lines 103-108: the counters <<total, looking, not looking>> after a frame
CountFrameDropNotLooking(cur, total, looking, notlooking) ==
    IF cur = "looking" THEN <<total + 1, looking + 1, notlooking>>
    ELSE <<total + 1, looking, notlooking>>

CountFrameBothBuckets(cur, total, looking, notlooking) ==
    IF cur = "looking" THEN <<total + 1, looking + 1, notlooking>>
    ELSE <<total + 1, looking + 1, notlooking + 1>>

CountFrame(cur, total, looking, notlooking) ==
    IF cur = "looking" THEN <<total + 1, looking + 1, notlooking>>
    ELSE <<total + 1, looking, notlooking + 1>>

\* the observers, advanced by one update
ObserveFrom(yaw, pitch, raw_state, smoothed, before, after, alert_before) ==
    /\ h_n' = h_n + 1
    /\ h_last_raw' = raw_state
    /\ h_prev_alert' = alert_before
    /\ h_away' = h_away
    /\ h_log' = IF h_log.on
               THEN [h_log EXCEPT !.raws = Append(@, raw_state)]
               ELSE h_log
    /\ h_same_run' = IF h_last_raw = raw_state THEN h_same_run + 1 ELSE 1
    /\ h_prev_diff' = h_diff_run
    /\ h_diff_run' = IF smoothed # before /\ after = before
                     THEN h_diff_run + 1 ELSE 0
    /\ h_changed' = (after # before)
    /\ h_dwell' = IF after # before THEN 0 ELSE h_dwell + 1
    /\ h_absent' = IF h_absent >= 0 /\ yaw = None /\ pitch = None
                   THEN h_absent + 1 ELSE -1
    /\ h_alt' = IF h_alt < 0 THEN -1
                ELSE IF h_n = 0 THEN 0
                ELSE IF h_last_raw = raw_state THEN -1
                ELSE h_alt + (IF after # before THEN 1 ELSE 0)

\* the same within one step, where the alert is still the one before the call
Observe(yaw, pitch, raw_state, smoothed, before, after) ==
    ObserveFrom(yaw, pitch, raw_state, smoothed, before, after, alert_active)

Update(yaw, pitch, current_time) ==
    /\ constructed
    /\ LET delta_time == current_time - last_update_time
           raw_state == classify_attention(yaw, pitch)
           buf == DequeAppend(state_buffer, raw_state, smoothing_window)
       IN /\ last_update_time' = current_time
          /\ h_clock' = current_time
          /\ h_nonneg' = (h_nonneg /\ current_time >= h_clock)
          /\ UNCHANGED calls
          /\ state_buffer' = buf
          /\ op' = "update"
          /\ IF VoteDividesByZero(buf, smoothing_window)
             THEN \* line 71 divides by len(self.state_buffer) = 0
                  /\ ret' = Raised("ZeroDivisionError")
                  /\ UNCHANGED <<config, current_state, previous_state,
                                 consecutive_count, time_not_looking,
                                 alert_active, statistics, constructed,
                                 smoothed_state, classify_args, history>>
             ELSE LET s == Smooth(buf, raw_state, smoothing_window)
                      d == Debounce(s.smoothed_state, current_state,
                                    previous_state, consecutive_count,
                                    min_consecutive_frames)
                      t == Timer(d.current_state, d.confirmed,
                                 time_not_looking, alert_active, delta_time,
                                 alert_threshold)
                      c == CountFrame(d.current_state, total_frames,
                                      frames_looking, frames_not_looking)
                  IN /\ smoothed_state' = s.smoothed_state
                     /\ current_state' = d.current_state
                     /\ previous_state' = d.previous_state
                     /\ consecutive_count' = d.consecutive_count
                     /\ time_not_looking' = t.time_not_looking
                     /\ alert_active' = t.alert_active
                     /\ total_frames' = c[1]
                     /\ frames_looking' = c[2]
                     /\ frames_not_looking' = c[3]
                     /\ ret' = [type |-> "FrameResult",
                                state |-> d.current_state,
                                time_not_looking |-> t.time_not_looking,
                                alert_active |-> t.alert_active,
                                confidence |-> s.confidence,
                                raw_state |-> raw_state]
                     /\ Observe(yaw, pitch, raw_state, s.smoothed_state,
                                current_state, d.current_state)
                     /\ UNCHANGED <<config, constructed, classify_args>>

\* -------------------------------------------------------------- reset
\* a reset that leaves the timestamp of the last update in place
ResetFieldsKeepClock(current_time) ==
    /\ current_state' = "looking"
    /\ previous_state' = "looking"
    /\ state_buffer' = <<>>
    /\ consecutive_count' = 0
    /\ time_not_looking' = 0
    /\ last_update_time' = last_update_time
    /\ alert_active' = FALSE

ResetFields(current_time) ==
    /\ current_state' = "looking"
    /\ previous_state' = "looking"
    /\ state_buffer' = <<>>
    /\ consecutive_count' = 0
    /\ time_not_looking' = 0
    /\ last_update_time' = current_time
    /\ alert_active' = FALSE

\* a reset written as a second call of __init__ with its default arguments
ResetByReinit(current_time) ==
    /\ constructed
    /\ ResetFields(current_time)
    /\ alert_threshold' = ALERT_THRESHOLD
    /\ yaw_threshold' = YAW_THRESHOLD
    /\ pitch_threshold' = PITCH_THRESHOLD
    /\ smoothing_window' = SMOOTHING_WINDOW
    /\ min_consecutive_frames' = MIN_CONSECUTIVE_FRAMES
    /\ total_frames' = 0
    /\ frames_looking' = 0
    /\ frames_not_looking' = 0
    /\ op' = "reset"
    /\ ret' = NoneRet
    /\ smoothed_state' = "none"
    /\ h_n' = 0
    /\ h_same_run' = 0
    /\ h_diff_run' = 0
    /\ h_prev_diff' = 0
    /\ h_alt' = -1
    /\ h_absent' = 0
    /\ h_changed' = FALSE
    /\ h_last_raw' = "none"
    /\ h_prev_alert' = FALSE
    /\ h_away' = h_away
    /\ h_dwell' = 0
    /\ h_log' = [h_log EXCEPT !.raws = <<>>]
    /\ h_clock' = current_time
    /\ h_nonneg' = TRUE
    /\ UNCHANGED calls
    /\ UNCHANGED <<constructed, classify_args>>

Reset(current_time) ==
    /\ constructed
    /\ ResetFields(current_time)
    /\ op' = "reset"
    /\ ret' = NoneRet
    /\ smoothed_state' = "none"
    /\ h_n' = 0
    /\ h_same_run' = 0
    /\ h_diff_run' = 0
    /\ h_prev_diff' = 0
    /\ h_alt' = -1
    /\ h_absent' = 0
    /\ h_changed' = FALSE
    /\ h_last_raw' = "none"
    /\ h_prev_alert' = FALSE
    /\ h_away' = h_away
    /\ h_dwell' = 0
    /\ h_log' = [h_log EXCEPT !.raws = <<>>]
    /\ h_clock' = current_time
    /\ h_nonneg' = TRUE
    /\ UNCHANGED calls
    /\ UNCHANGED <<config, statistics, constructed, classify_args>>

\* ----------------------------------------------------- get_statistics
StatsRatioNotLooking ==
    [type |-> "Stats",
     total_frames |-> total_frames,
     frames_looking |-> frames_looking,
     frames_not_looking |-> frames_not_looking,
     attention_ratio |-> IF total_frames = 0 THEN Ratio(1, 1)
                         ELSE Ratio(frames_not_looking, total_frames),
     current_state |-> current_state,
     time_not_looking |-> time_not_looking,
     alert_active |-> alert_active]

Stats ==
    [type |-> "Stats",
     total_frames |-> total_frames,
     frames_looking |-> frames_looking,
     frames_not_looking |-> frames_not_looking,
     attention_ratio |-> IF total_frames = 0 THEN Ratio(1, 1)
                         ELSE Ratio(frames_looking, total_frames),
     current_state |-> current_state,
     time_not_looking |-> time_not_looking,
     alert_active |-> alert_active]

\* a snapshot that refreshes the clock reading as it goes
GetStatisticsTouchClock ==
    /\ constructed
    /\ op' = "get_statistics"
    /\ ret' = [type |-> "Stats",
               total_frames |-> total_frames,
               frames_looking |-> frames_looking,
               frames_not_looking |-> frames_not_looking,
               attention_ratio |-> IF total_frames = 0 THEN Ratio(1, 1)
                                   ELSE Ratio(frames_looking, total_frames),
               current_state |-> current_state,
               time_not_looking |-> time_not_looking,
               alert_active |-> alert_active]
    /\ \E t \in 0 .. MaxTime : last_update_time' = t
    /\ UNCHANGED <<config, current_state, previous_state, state_buffer,
                   consecutive_count, time_not_looking, alert_active,
                   statistics, constructed, smoothed_state, classify_args,
                   history, h_clock, h_nonneg, calls>>

GetStatistics ==
    /\ constructed
    /\ op' = "get_statistics"
    /\ ret' = Stats
    /\ UNCHANGED <<config, tracking, statistics, constructed, smoothed_state,
                   classify_args, history, h_clock, h_nonneg, calls>>

\* a direct call of classify_attention by the caller (tests/test_basic.py:38)
ClassifyCall(yaw, pitch) ==
    /\ constructed
    /\ op' = "classify_attention"
    /\ classify_args' = <<yaw, pitch>>
    /\ ret' = [type |-> "str", value |-> classify_attention(yaw, pitch)]
    /\ UNCHANGED <<config, tracking, statistics, constructed, smoothed_state,
                   history, h_clock, h_nonneg, calls>>

\* ----------------------------------------------------------- __init__
\* deque(maxlen = n) raises ValueError for n < 0, and __init__ with it
ConstructNotLooking(at, yt, pt, sw, mc, current_time) ==
    /\ alert_threshold = at
    /\ yaw_threshold = yt
    /\ pitch_threshold = pt
    /\ smoothing_window = sw
    /\ min_consecutive_frames = mc
    /\ current_state = "not_looking"
    /\ previous_state = "not_looking"
    /\ state_buffer = <<>>
    /\ consecutive_count = 0
    /\ time_not_looking = 0
    /\ last_update_time = current_time
    /\ alert_active = FALSE
    /\ total_frames = 0
    /\ frames_looking = 0
    /\ frames_not_looking = 0
    /\ constructed = (sw >= 0)
    /\ op = "init"
    /\ ret = IF sw >= 0 THEN NoneRet ELSE Raised("ValueError")
    /\ smoothed_state = "none"
    /\ classify_args = <<>>
    /\ h_n = 0
    /\ h_same_run = 0
    /\ h_diff_run = 0
    /\ h_prev_diff = 0
    /\ h_alt = 0
    /\ h_absent = 0
    /\ h_changed = FALSE
    /\ h_last_raw = "none"
    /\ h_prev_alert = FALSE
    /\ h_away = 0
    /\ h_dwell = 0
    /\ h_clock = current_time
    /\ h_nonneg = TRUE
    /\ in_update = <<>>
    /\ in_stats = <<>>
    /\ h_held = NotHeld

Construct(at, yt, pt, sw, mc, current_time) ==
    /\ alert_threshold = at
    /\ yaw_threshold = yt
    /\ pitch_threshold = pt
    /\ smoothing_window = sw
    /\ min_consecutive_frames = mc
    /\ current_state = "looking"
    /\ previous_state = "looking"
    /\ state_buffer = <<>>
    /\ consecutive_count = 0
    /\ time_not_looking = 0
    /\ last_update_time = current_time
    /\ alert_active = FALSE
    /\ total_frames = 0
    /\ frames_looking = 0
    /\ frames_not_looking = 0
    /\ constructed = (sw >= 0)
    /\ op = "init"
    /\ ret = IF sw >= 0 THEN NoneRet ELSE Raised("ValueError")
    /\ smoothed_state = "none"
    /\ classify_args = <<>>
    /\ h_n = 0
    /\ h_same_run = 0
    /\ h_diff_run = 0
    /\ h_prev_diff = 0
    /\ h_alt = 0
    /\ h_absent = 0
    /\ h_changed = FALSE
    /\ h_last_raw = "none"
    /\ h_prev_alert = FALSE
    /\ h_away = 0
    /\ h_dwell = 0
    /\ h_clock = current_time
    /\ h_nonneg = TRUE
    /\ in_update = <<>>
    /\ in_stats = <<>>
    /\ h_held = NotHeld

\* --------------------------------------------------------------- inputs
Times == 0 .. MaxTime
\* an alert threshold the clock's range can reach in one step or in several
AlertThresholds == {MaxTime}
\* <<yaw, pitch>>: no face (main.py:82), straight ahead, yaw exactly at its
\* default threshold, pitch beyond its default threshold
Poses == {<<None, None>>, <<Some(0), Some(0)>>,
          <<Some(YAW_THRESHOLD), Some(0)>>,
          <<Some(0), Some(0 - PITCH_THRESHOLD - 1)>>}
\* for classify_attention alone: each threshold, its neighbours, and beyond
Magnitudes == {0, PITCH_THRESHOLD - 1, PITCH_THRESHOLD, PITCH_THRESHOLD + 1,
               YAW_THRESHOLD - 1, YAW_THRESHOLD, YAW_THRESHOLD + 1,
               YAW_THRESHOLD + 5}
Angles == {None} \cup {Some(a) : a \in Magnitudes}
               \cup {Some(0 - a) : a \in Magnitudes}

\* the log of raw classifications: not kept, and kept from the start
NoLog == [on |-> FALSE, raws |-> <<>>]
EmptyLog == [on |-> TRUE, raws |-> <<>>]

\* what the spec's construction contract accepts
ValidConfig(at, sw, mc) == at > 0 /\ sw >= 1 /\ mc >= 1

\* ------------------------------------------------------- specifications
\* any valid configuration, any call sequence, a clock that may jump
Init ==
    /\ \E at \in AlertThresholds, sw \in 1 .. MaxWindow,
          mc \in 1 .. MaxConsecutive, t \in Times :
           Construct(at, YAW_THRESHOLD, PITCH_THRESHOLD, sw, mc, t)
    /\ h_log = NoLog

UpdateAny ==
    /\ total_frames < MaxFrames
    /\ \E pose \in Poses, t \in Times : Update(pose[1], pose[2], t)

Next ==
    \/ UpdateAny
    \/ \E t \in Times : Reset(t)
    \/ GetStatistics

Spec == Init /\ [][Next]_vars

\* the defaults of config/settings.py, one frame per second from t = 0
InitDefaults ==
    /\ Construct(ALERT_THRESHOLD, YAW_THRESHOLD, PITCH_THRESHOLD,
                 SMOOTHING_WINDOW, MIN_CONSECUTIVE_FRAMES, 0)
    /\ h_log = NoLog

UpdateHz(yaw, pitch) ==
    /\ total_frames < MaxFramesHz
    /\ Update(yaw, pitch, total_frames)

NextDefaults == \E pose \in Poses : UpdateHz(pose[1], pose[2])

SpecDefaults == InitDefaults /\ [][NextDefaults]_vars

\* classify_attention alone, called on a tracker built with either default
\* threshold on either axis
InitClassify ==
    /\ \E yt \in {YAW_THRESHOLD, PITCH_THRESHOLD},
          pt \in {YAW_THRESHOLD, PITCH_THRESHOLD} :
           Construct(ALERT_THRESHOLD, yt, pt, SMOOTHING_WINDOW,
                     MIN_CONSECUTIVE_FRAMES, 0)
    /\ h_log = NoLog

NextClassify == \E yaw \in Angles, pitch \in Angles : ClassifyCall(yaw, pitch)

SpecClassify == InitClassify /\ [][NextClassify]_vars

\* any configuration the constructor is handed, valid or not
InitAnyConfig ==
    /\ \E at \in 0 .. 1, sw \in -1 .. 1, mc \in 0 .. 1, t \in Times :
           Construct(at, YAW_THRESHOLD, PITCH_THRESHOLD, sw, mc, t)
    /\ h_log = NoLog

SpecAnyConfig == InitAnyConfig /\ [][Next]_vars

\* any valid configuration and any sequence of updates, after which the
\* caller's loop (main.py:103-113) keeps calling update, every call with a
\* not_looking raw classification and a clock at least one second further.
\* The phase is followed for AwayFrames updates: the window holds only
\* not_looking entries after smoothing_window of them, the state is confirmed
\* min_consecutive_frames - 1 updates later and the timer, which gains at
\* least a second per update, needs alert_threshold - 1 more; a timer that
\* a backwards clock left below zero (by MaxTime at most) needs
\* alert_threshold + MaxTime; one more update shows the alert staying.
AwayFrames ==
    LET settle == smoothing_window + min_consecutive_frames
                  + alert_threshold - 2
        debt == alert_threshold + MaxTime
    IN  (IF settle >= debt THEN settle ELSE debt) + 1

StartAway ==
    /\ constructed
    /\ h_away = 0
    /\ h_away' = total_frames + 1
    /\ UNCHANGED <<config, tracking, statistics, constructed, op, ret,
                   smoothed_state, classify_args, h_n, h_same_run, h_diff_run,
                   h_prev_diff, h_alt, h_absent, h_changed, h_last_raw,
                   h_prev_alert, h_dwell, h_log, h_clock, h_nonneg, calls>>

UpdateAway ==
    /\ h_away > 0
    /\ total_frames < (h_away - 1) + AwayFrames
    /\ \E pose \in Poses, delta \in 1 .. MaxTime :
        /\ classify_attention(pose[1], pose[2]) = "not_looking"
        /\ Update(pose[1], pose[2], last_update_time + delta)

NextAway ==
    \/ h_away = 0 /\ UpdateAny
    \/ StartAway
    \/ UpdateAway

SpecAway == Init /\ [][NextAway]_vars /\ WF_vars(UpdateAway)

\* either of the above: any valid configuration under a clock that may jump,
\* or the defaults fed one frame per second
DefaultsBuilt ==
    /\ alert_threshold = ALERT_THRESHOLD
    /\ smoothing_window = SMOOTHING_WINDOW
    /\ min_consecutive_frames = MIN_CONSECUTIVE_FRAMES

InitScenarios == Init \/ InitDefaults

NextScenarios ==
    \/ DefaultsBuilt /\ NextDefaults
    \/ ~DefaultsBuilt /\ Next

SpecScenarios == InitScenarios /\ [][NextScenarios]_vars

\* any valid configuration, any sequence of update and reset calls, the raw
\* classifications logged
InitTraced ==
    /\ \E at \in AlertThresholds, sw \in 1 .. MaxWindow,
          mc \in 1 .. MaxConsecutive, t \in Times :
           Construct(at, YAW_THRESHOLD, PITCH_THRESHOLD, sw, mc, t)
    /\ h_log = EmptyLog

NextTraced ==
    \/ UpdateAny
    \/ \E t \in Times : Reset(t)

SpecTraced == InitTraced /\ [][NextTraced]_vars

\* any valid configuration and any sequence of updates and resets, after
\* which the raw classification stays what it last was (or, after a reset,
\* what the first update makes it) for up to smoothing_window +
\* min_consecutive_frames updates
UpdateRun ==
    /\ total_frames >= MaxFrames
    /\ total_frames < MaxFrames + MaxWindow + MaxConsecutive
    /\ h_same_run < smoothing_window + min_consecutive_frames
    /\ \E pose \in Poses, t \in Times :
        /\ h_last_raw \in {"none", classify_attention(pose[1], pose[2])}
        /\ Update(pose[1], pose[2], t)

NextSteady ==
    \/ UpdateAny
    \/ \E t \in Times : Reset(t)
    \/ UpdateRun

SpecSteady == Init /\ [][NextSteady]_vars

\* update on one thread and get_statistics on another, one frame per second.
\* The threads may switch after the call of either method, before every
\* write of a field by update, before every read of a field by
\* get_statistics, and before the return of either. update is the only
\* writer, so the fields it reads are its own and each of its steps is one
\* write with the reads and tests that lead to it; get_statistics only
\* reads. in_update holds the locals of the running update and the line it
\* is at, in_stats the values get_statistics has read so far.

\* the fields and the ratio as they are now
HeldNow ==
    [total_frames |-> {total_frames},
     frames_looking |-> {frames_looking},
     frames_not_looking |-> {frames_not_looking},
     attention_ratio |-> {IF total_frames = 0 THEN <<1, 1>>
                          ELSE <<frames_looking, total_frames>>},
     current_state |-> {current_state},
     time_not_looking |-> {time_not_looking},
     alert_active |-> {alert_active}]

\* h_held after a write by update: while a get_statistics is running, every
\* value a field takes is added to the values it has held during the call
Hold(tf, fl, fnl, cs, tnl, al) ==
    h_held' = IF in_stats = <<>> THEN h_held
              ELSE [total_frames |-> h_held.total_frames \cup {tf},
                    frames_looking |-> h_held.frames_looking \cup {fl},
                    frames_not_looking |->
                        h_held.frames_not_looking \cup {fnl},
                    attention_ratio |->
                        h_held.attention_ratio
                            \cup {IF tf = 0 THEN <<1, 1>> ELSE <<fl, tf>>},
                    current_state |-> h_held.current_state \cup {cs},
                    time_not_looking |-> h_held.time_not_looking \cup {tnl},
                    alert_active |-> h_held.alert_active \cup {al}]

\* line 98, as the step before it finds it: the line of the next write
Line98(cur) == IF cur = "not_looking" THEN 99 ELSE 104

\* line 86, likewise
Line86(cnt, cur) ==
    IF cnt >= min_consecutive_frames THEN 87 ELSE Line98(cur)

\* line 53: update is called and has run nothing yet
UpdateEnter(yaw, pitch) ==
    /\ constructed
    /\ in_update = <<>>
    /\ in_update' = Some([pc |-> 60, yaw |-> yaw, pitch |-> pitch,
                          delta_time |-> 0,
                          raw_state |-> "none", confidence |-> None,
                          before |-> current_state,
                          alert_before |-> alert_active])
    /\ UNCHANGED <<config, tracking, statistics, constructed, op, ret,
                   smoothed_state, classify_args, history, h_clock, h_nonneg,
                   in_stats, h_held>>

\* lines 60-62
UpdateClock(current_time) ==
    /\ in_update # <<>>
    /\ in_update[1].pc = 60
    /\ last_update_time' = current_time
    /\ h_clock' = current_time
    /\ h_nonneg' = (h_nonneg /\ current_time >= h_clock)
    /\ in_update' = [in_update EXCEPT
                        ![1].pc = 65,
                        ![1].delta_time = current_time - last_update_time]
    /\ UNCHANGED <<config, current_state, previous_state, state_buffer,
                   consecutive_count, time_not_looking, alert_active,
                   statistics, constructed, op, ret, smoothed_state,
                   classify_args, history, in_stats, h_held>>

\* lines 65-66
UpdateAppend ==
    /\ in_update # <<>>
    /\ in_update[1].pc = 65
    /\ LET raw_state == classify_attention(in_update[1].yaw, in_update[1].pitch)
       IN /\ state_buffer' = DequeAppend(state_buffer, raw_state,
                                         smoothing_window)
          /\ in_update' = [in_update EXCEPT ![1].pc = 69,
                                            ![1].raw_state = raw_state]
    /\ UNCHANGED <<config, current_state, previous_state, consecutive_count,
                   time_not_looking, last_update_time, alert_active,
                   statistics, constructed, op, ret, smoothed_state,
                   classify_args, history, h_clock, h_nonneg, in_stats,
                   h_held>>

\* lines 69-75: the vote, or the ZeroDivisionError of line 71
UpdateSmooth ==
    /\ in_update # <<>>
    /\ in_update[1].pc = 69
    /\ IF VoteDividesByZero(state_buffer, smoothing_window)
       THEN /\ op' = "update"
            /\ ret' = Raised("ZeroDivisionError")
            /\ in_update' = <<>>
            /\ UNCHANGED smoothed_state
       ELSE LET s == Smooth(state_buffer, in_update[1].raw_state,
                            smoothing_window)
            IN /\ smoothed_state' = s.smoothed_state
               /\ in_update' = [in_update EXCEPT ![1].pc = 78,
                                                 ![1].confidence = s.confidence]
               /\ UNCHANGED <<op, ret>>
    /\ UNCHANGED <<config, tracking, statistics, constructed, classify_args,
                   history, h_clock, h_nonneg, in_stats, h_held>>

\* lines 78-82 and 94: the write of consecutive_count
UpdateCount ==
    /\ in_update # <<>>
    /\ in_update[1].pc = 78
    /\ IF smoothed_state # current_state
       THEN IF smoothed_state = previous_state
            THEN /\ consecutive_count' = consecutive_count + 1
                 /\ in_update' =
                        [in_update EXCEPT
                            ![1].pc = Line86(consecutive_count + 1,
                                          current_state)]
            ELSE /\ consecutive_count' = 1
                 /\ in_update' = [in_update EXCEPT ![1].pc = 83]
       ELSE /\ consecutive_count' = 0
            /\ in_update' = [in_update EXCEPT ![1].pc = 95]
    /\ UNCHANGED <<config, current_state, previous_state, state_buffer,
                   time_not_looking, last_update_time, alert_active,
                   statistics, constructed, op, ret, smoothed_state,
                   classify_args, history, h_clock, h_nonneg, in_stats,
                   h_held>>

\* line 83 or line 95: the write of previous_state
UpdatePending ==
    /\ in_update # <<>>
    /\ in_update[1].pc \in {83, 95}
    /\ previous_state' = smoothed_state
    /\ in_update' =
           [in_update EXCEPT
               ![1].pc = IF in_update[1].pc = 83
                      THEN Line86(consecutive_count, current_state)
                      ELSE Line98(current_state)]
    /\ UNCHANGED <<config, current_state, state_buffer, consecutive_count,
                   time_not_looking, last_update_time, alert_active,
                   statistics, constructed, op, ret, smoothed_state,
                   classify_args, history, h_clock, h_nonneg, in_stats,
                   h_held>>

\* line 87
UpdateConfirm ==
    /\ in_update # <<>>
    /\ in_update[1].pc = 87
    /\ current_state' = smoothed_state
    /\ in_update' = [in_update EXCEPT ![1].pc = 88]
    /\ Hold(total_frames, frames_looking, frames_not_looking,
            smoothed_state, time_not_looking, alert_active)
    /\ UNCHANGED <<config, previous_state, state_buffer, consecutive_count,
                   time_not_looking, last_update_time, alert_active,
                   statistics, constructed, op, ret, smoothed_state,
                   classify_args, history, h_clock, h_nonneg, in_stats>>

\* lines 88 and 90
UpdateCountClear ==
    /\ in_update # <<>>
    /\ in_update[1].pc = 88
    /\ consecutive_count' = 0
    /\ in_update' = [in_update EXCEPT
                        ![1].pc = IF current_state = "looking" THEN 91
                               ELSE Line98(current_state)]
    /\ UNCHANGED <<config, current_state, previous_state, state_buffer,
                   time_not_looking, last_update_time, alert_active,
                   statistics, constructed, op, ret, smoothed_state,
                   classify_args, history, h_clock, h_nonneg, in_stats,
                   h_held>>

\* line 91
UpdateTimerClear ==
    /\ in_update # <<>>
    /\ in_update[1].pc = 91
    /\ time_not_looking' = 0
    /\ in_update' = [in_update EXCEPT ![1].pc = 92]
    /\ Hold(total_frames, frames_looking, frames_not_looking,
            current_state, 0, alert_active)
    /\ UNCHANGED <<config, current_state, previous_state, state_buffer,
                   consecutive_count, last_update_time, alert_active,
                   statistics, constructed, op, ret, smoothed_state,
                   classify_args, history, h_clock, h_nonneg, in_stats>>

\* line 92
UpdateAlertClear ==
    /\ in_update # <<>>
    /\ in_update[1].pc = 92
    /\ alert_active' = FALSE
    /\ in_update' = [in_update EXCEPT ![1].pc = Line98(current_state)]
    /\ Hold(total_frames, frames_looking, frames_not_looking,
            current_state, time_not_looking, FALSE)
    /\ UNCHANGED <<config, current_state, previous_state, state_buffer,
                   consecutive_count, time_not_looking, last_update_time,
                   statistics, constructed, op, ret, smoothed_state,
                   classify_args, history, h_clock, h_nonneg, in_stats>>

\* lines 99-100
UpdateTimerAdd ==
    /\ in_update # <<>>
    /\ in_update[1].pc = 99
    /\ LET t == time_not_looking + in_update[1].delta_time
       IN /\ time_not_looking' = t
          /\ in_update' = [in_update EXCEPT
                              ![1].pc = IF t >= alert_threshold THEN 101
                                     ELSE 104]
          /\ Hold(total_frames, frames_looking, frames_not_looking,
                  current_state, t, alert_active)
    /\ UNCHANGED <<config, current_state, previous_state, state_buffer,
                   consecutive_count, last_update_time, alert_active,
                   statistics, constructed, op, ret, smoothed_state,
                   classify_args, history, h_clock, h_nonneg, in_stats>>

\* line 101
UpdateAlertSet ==
    /\ in_update # <<>>
    /\ in_update[1].pc = 101
    /\ alert_active' = TRUE
    /\ in_update' = [in_update EXCEPT ![1].pc = 104]
    /\ Hold(total_frames, frames_looking, frames_not_looking,
            current_state, time_not_looking, TRUE)
    /\ UNCHANGED <<config, current_state, previous_state, state_buffer,
                   consecutive_count, time_not_looking, last_update_time,
                   statistics, constructed, op, ret, smoothed_state,
                   classify_args, history, h_clock, h_nonneg, in_stats>>

\* line 104
UpdateCountTotal ==
    /\ in_update # <<>>
    /\ in_update[1].pc = 104
    /\ total_frames' = total_frames + 1
    /\ in_update' = [in_update EXCEPT ![1].pc = 105]
    /\ Hold(total_frames + 1, frames_looking, frames_not_looking,
            current_state, time_not_looking, alert_active)
    /\ UNCHANGED <<config, tracking, frames_looking, frames_not_looking,
                   constructed, op, ret, smoothed_state, classify_args,
                   history, h_clock, h_nonneg, in_stats>>

\* lines 105-108
UpdateCountBucket ==
    /\ in_update # <<>>
    /\ in_update[1].pc = 105
    /\ LET c == IF current_state = "looking"
                THEN <<frames_looking + 1, frames_not_looking>>
                ELSE <<frames_looking, frames_not_looking + 1>>
       IN /\ frames_looking' = c[1]
          /\ frames_not_looking' = c[2]
          /\ Hold(total_frames, c[1], c[2], current_state,
                  time_not_looking, alert_active)
    /\ in_update' = [in_update EXCEPT ![1].pc = 110]
    /\ UNCHANGED <<config, tracking, total_frames, constructed, op, ret,
                   smoothed_state, classify_args, history, h_clock, h_nonneg,
                   in_stats>>

\* lines 110-116: the result is built from update's own fields and returned
UpdateLeave ==
    /\ in_update # <<>>
    /\ in_update[1].pc = 110
    /\ op' = "update"
    /\ ret' = [type |-> "FrameResult",
               state |-> current_state,
               time_not_looking |-> time_not_looking,
               alert_active |-> alert_active,
               confidence |-> in_update[1].confidence,
               raw_state |-> in_update[1].raw_state]
    /\ ObserveFrom(in_update[1].yaw, in_update[1].pitch, in_update[1].raw_state,
                   smoothed_state, in_update[1].before, current_state,
                   in_update[1].alert_before)
    /\ in_update' = <<>>
    /\ UNCHANGED <<config, tracking, statistics, constructed,
                   smoothed_state, classify_args, h_clock, h_nonneg,
                   in_stats, h_held>>

\* line 128: get_statistics is called and has read nothing yet; the values
\* the fields hold during the call are recorded from here to its return
StatsCall ==
    /\ constructed
    /\ in_stats = <<>>
    /\ in_stats' = Some(<<>>)
    /\ h_held' = HeldNow
    /\ UNCHANGED <<config, tracking, statistics, constructed, op, ret,
                   smoothed_state, classify_args, history, h_clock, h_nonneg,
                   in_update>>

\* what get_statistics has read so far
StatsReads == in_stats[1]

\* a read by get_statistics: the value is added to those read so far
StatsRead(n, value) ==
    /\ in_stats # <<>>
    /\ Len(StatsReads) = n
    /\ in_stats' = Some(Append(StatsReads, value))
    /\ UNCHANGED <<config, tracking, statistics, constructed, op, ret,
                   smoothed_state, classify_args, history, h_clock, h_nonneg,
                   in_update, h_held>>

\* lines 130-131: the read of total_frames, and the ratio of no frames
StatsEnter ==
    /\ in_stats # <<>>
    /\ Len(StatsReads) = 0
    /\ in_stats' = Some(IF total_frames = 0 THEN <<0, None, Ratio(1, 1)>>
                        ELSE <<total_frames>>)
    /\ UNCHANGED <<config, tracking, statistics, constructed, op, ret,
                   smoothed_state, classify_args, history, h_clock, h_nonneg,
                   in_update, h_held>>

\* line 133, the dividend
StatsRatioLooking == StatsRead(1, frames_looking)

\* line 133, the divisor and the division
StatsRatioTotal == StatsRead(2, Ratio(StatsReads[2], total_frames))

\* line 136
StatsReadTotal == StatsRead(3, total_frames)

\* line 137
StatsReadLooking == StatsRead(4, frames_looking)

\* line 138, with the not-looking count made up from the other two
StatsReadNotLookingDerived == StatsRead(5, StatsReads[4] - StatsReads[5])

\* line 138
StatsReadNotLooking == StatsRead(5, frames_not_looking)

\* line 140
StatsReadState == StatsRead(6, current_state)

\* line 141
StatsReadTimer == StatsRead(7, time_not_looking)

\* line 142
StatsReadAlert == StatsRead(8, alert_active)

\* lines 135-143: the return of what was read
StatsLeave ==
    /\ in_stats # <<>>
    /\ Len(StatsReads) = 9
    /\ op' = "get_statistics"
    /\ ret' = [type |-> "Stats",
               total_frames |-> StatsReads[4],
               frames_looking |-> StatsReads[5],
               frames_not_looking |-> StatsReads[6],
               attention_ratio |-> StatsReads[3],
               current_state |-> StatsReads[7],
               time_not_looking |-> StatsReads[8],
               alert_active |-> StatsReads[9]]
    /\ in_stats' = <<>>
    /\ UNCHANGED <<config, tracking, statistics, constructed,
                   smoothed_state, classify_args, history, h_clock, h_nonneg,
                   in_update, h_held>>

\* the two poses of main.py's loop: no face, and a face straight ahead
PosesInterleaved == {<<None, None>>, <<Some(0), Some(0)>>}

UpdateEnterHz ==
    /\ total_frames < MaxFrames - 1
    /\ \E pose \in PosesInterleaved : UpdateEnter(pose[1], pose[2])

\* the clock read by the n-th update is n - 1
UpdateClockHz == UpdateClock(total_frames)

NextInterleaved ==
    \/ UpdateEnterHz
    \/ UpdateClockHz
    \/ UpdateAppend
    \/ UpdateSmooth
    \/ UpdateCount
    \/ UpdatePending
    \/ UpdateConfirm
    \/ UpdateCountClear
    \/ UpdateTimerClear
    \/ UpdateAlertClear
    \/ UpdateTimerAdd
    \/ UpdateAlertSet
    \/ UpdateCountTotal
    \/ UpdateCountBucket
    \/ UpdateLeave
    \/ StatsCall
    \/ StatsEnter
    \/ StatsRatioLooking
    \/ StatsRatioTotal
    \/ StatsReadTotal
    \/ StatsReadLooking
    \/ StatsReadNotLooking
    \/ StatsReadState
    \/ StatsReadTimer
    \/ StatsReadAlert
    \/ StatsLeave

\* the defaults, and a configuration under which four frames reach every
\* line of update
InitInterleaved ==
    \/ InitDefaults
    \/ /\ Construct(1, YAW_THRESHOLD, PITCH_THRESHOLD, 1, 2, 0)
       /\ h_log = NoLog

SpecInterleaved == InitInterleaved /\ [][NextInterleaved]_vars

\* ================================================================ claims
\* a step of update that returned a FrameResult
UpdateStep == total_frames' = total_frames + 1
\* every update since construction or the last reset had a not_looking raw
\* classification, and there was at least one
AllNotLooking == h_n >= 1 /\ h_same_run = h_n /\ h_last_raw = "not_looking"

\* C1 (as stated): for every accepted configuration, an update whose smoothed
\* value differs from the state, coming after an update whose smoothed value
\* equalled the state, does not change the state.
C1_IsolatedFlipAnyConfig ==
    [][(UpdateStep /\ smoothed_state = current_state
            /\ smoothed_state' # current_state)
        => current_state' = current_state]_vars

\* C1 (amended): with min_consecutive_frames >= 2, an update whose smoothed
\* value differs from the state, coming after an update whose smoothed value
\* equalled the state, does not change the state.
C1_IsolatedFlip ==
    [][(UpdateStep /\ min_consecutive_frames >= 2
            /\ smoothed_state = current_state
            /\ smoothed_state' # current_state)
        => current_state' = current_state]_vars

C1_Witness ==
    /\ op = "update" /\ min_consecutive_frames >= 2
    /\ h_n >= 2 /\ h_prev_diff = 0 /\ h_diff_run = 1
    /\ smoothed_state # current_state

\* C2: no partial credit.  While fewer than min_consecutive_frames updates in
\* a row have had a smoothed value different from the state, the state does
\* not change; an update whose smoothed value equals the state leaves the
\* state alone and consecutive_count at 0; and the first differing update
\* after that counts from 1.
C2_NoPartialCredit ==
    [][UpdateStep =>
        /\ (smoothed_state' # current_state
                /\ h_diff_run + 1 < min_consecutive_frames
             => current_state' = current_state)
        /\ (smoothed_state' = current_state
             => current_state' = current_state /\ consecutive_count' = 0)
        /\ (h_diff_run = 0 /\ smoothed_state' # current_state
                /\ min_consecutive_frames >= 2
             => consecutive_count' = 1)]_vars

\* min_consecutive_frames = 3, two not_looking smoothed frames, then looking
C2_Witness ==
    /\ op = "update" /\ min_consecutive_frames = 3
    /\ h_prev_diff = 2 /\ h_diff_run = 0 /\ ~h_changed
    /\ smoothed_state = "looking" /\ current_state = "looking"
    /\ consecutive_count = 0

\* C3: under the defaults (window 5, 3 consecutive frames), up to 10 updates
\* from construction whose raw classifications strictly alternate change the
\* returned state at most 4 times.
C3_AlternatingAtMostFourChanges ==
    (h_alt >= 0 /\ h_n <= 10) => h_alt <= 4

C3_Witness ==
    /\ smoothing_window = 5 /\ min_consecutive_frames = 3
    /\ h_n = 10 /\ h_alt >= 0 /\ op = "update"

\* C4: alert monotonicity.  An update made while alert_active holds in state
\* not_looking returns alert_active = TRUE if it leaves the state
\* not_looking, and returns alert_active = FALSE and time_not_looking = 0
\* if it makes the state looking.
C4_AlertMonotone ==
    [][(UpdateStep /\ alert_active /\ current_state = "not_looking")
        => IF current_state' = "not_looking"
           THEN ret'.alert_active /\ alert_active'
           ELSE /\ ~ret'.alert_active /\ ~alert_active'
                /\ ret'.time_not_looking = 0 /\ time_not_looking' = 0]_vars

C4_Witness ==
    /\ op = "update" /\ h_prev_alert /\ h_changed
    /\ ret.state = "looking" /\ ~ret.alert_active

\* C5: total_frames = frames_looking + frames_not_looking after any
\* sequence of update, reset and get_statistics calls.
C5_CountersAddUp == total_frames = frames_looking + frames_not_looking

C5_Witness ==
    /\ op = "reset" /\ total_frames >= 3
    /\ frames_looking >= 1 /\ frames_not_looking >= 1

\* C6: get_statistics called after reset, with no update in between, returns
\* the snapshot of a freshly constructed tracker.
FreshStats ==
    [type |-> "Stats", total_frames |-> 0, frames_looking |-> 0,
     frames_not_looking |-> 0, attention_ratio |-> Ratio(1, 1),
     current_state |-> "looking", time_not_looking |-> 0,
     alert_active |-> FALSE]

C6_ResetGivesFreshSnapshot ==
    (op = "get_statistics" /\ h_n = 0) => ret = FreshStats

\* C7: a configuration with alert_threshold <= 0, smoothing_window < 1 or
\* min_consecutive_frames < 1 makes the constructor raise ConfigurationError
\* and yields no tracker, so that no later call raises because of it.
C7_InvalidConfigRejected ==
    /\ ~ValidConfig(alert_threshold, smoothing_window, min_consecutive_frames)
       => ~constructed /\ ret = Raised("ConfigurationError")
    /\ op # "init" => ret.type # "exception"

\* C8: classify_attention returns "looking" exactly when yaw and pitch are
\* both present and both strictly inside their thresholds, and
\* "not_looking" otherwise; under the defaults (0, 0) is looking and
\* (30, 0) is not.
C8_ClassifyStrict ==
    op = "classify_attention" =>
        LET yaw == classify_args[1]
            pitch == classify_args[2]
            inside == /\ yaw # None /\ pitch # None
                      /\ 0 - yaw_threshold < yaw[1] /\ yaw[1] < yaw_threshold
                      /\ 0 - pitch_threshold < pitch[1]
                      /\ pitch[1] < pitch_threshold
        IN /\ ret.value = (IF inside THEN "looking" ELSE "not_looking")
           /\ (yaw = Some(0) /\ pitch = Some(0)) => ret.value = "looking"
           /\ (yaw = Some(30) /\ pitch = Some(0) /\ yaw_threshold = 25)
              => ret.value = "not_looking"

\* yaw exactly at the threshold, pitch well inside
C8_Witness ==
    /\ op = "classify_attention"
    /\ yaw_threshold = YAW_THRESHOLD /\ pitch_threshold = PITCH_THRESHOLD
    /\ classify_args = <<Some(YAW_THRESHOLD), Some(0)>>
    /\ ret.value = "not_looking"

\* C9: after n >= 1 updates from construction or reset, all with a
\* not_looking raw classification, the state is looking if
\* n < min_consecutive_frames and not_looking otherwise, and the update that
\* changed it is number min_consecutive_frames.
C9_NotLookingRunConfirms ==
    AllNotLooking =>
        /\ (h_n < min_consecutive_frames => current_state = "looking")
        /\ (h_n >= min_consecutive_frames => current_state = "not_looking")
        /\ (h_changed <=> h_n = min_consecutive_frames)

\* tests/test_basic.py:51-57 with min_consecutive_frames = 3
C9_Witness ==
    /\ AllNotLooking /\ op = "update"
    /\ smoothing_window = 3 /\ min_consecutive_frames = 3 /\ h_n = 5
    /\ current_state = "not_looking"

\* C10 (as stated): defaults, update(None, None) at t = 0 .. 6: the smoothed
\* value is looking on calls 1 to 4 and not_looking from call 5, the state is
\* looking on calls 1 to 4 and not_looking on call 7.
C10_ScenarioWindowFillFirst ==
    /\ (h_absent \in 1 .. 4
        => smoothed_state = "looking" /\ current_state = "looking")
    /\ (h_absent \in 5 .. 7 => smoothed_state = "not_looking")
    /\ (h_absent = 7 => current_state = "not_looking")

\* C10 (amended): defaults, update(None, None) at t = 0 .. 6: the smoothed
\* value is not_looking on every call, the state is looking on calls 1 and
\* 2, changes on call 3 and is not_looking on calls 3 to 7.
C10_Scenario ==
    h_absent \in 1 .. 7 =>
        /\ last_update_time = h_absent - 1
        /\ ret.raw_state = "not_looking"
        /\ smoothed_state = "not_looking"
        /\ (h_absent < 3 => current_state = "looking")
        /\ (h_absent >= 3 => current_state = "not_looking")
        /\ (h_changed <=> h_absent = 3)

C10_Witness ==
    /\ h_absent = 7 /\ last_update_time = 6 /\ op = "update"
    /\ smoothing_window = SMOOTHING_WINDOW
    /\ min_consecutive_frames = MIN_CONSECUTIVE_FRAMES
    /\ current_state = "not_looking"

\* a call of update that returned a FrameResult, told by the observer
UpdateCalled == h_n' = h_n + 1

\* C11: time_not_looking is never negative, and an update that leaves the
\* state not_looking never decreases it, whatever the clock does.
C11_TimerNeverNegativeNorDecreasing ==
    [][UpdateCalled =>
        /\ time_not_looking' >= 0
        /\ (current_state' = "not_looking"
             => time_not_looking' >= time_not_looking)]_vars

\* C12: every update adds 1 to total_frames and 1 to exactly one of
\* frames_looking and frames_not_looking, the one named by the state after
\* the update, and leaves the other alone.
C12_EveryUpdateCountedOnce ==
    [][UpdateCalled =>
        /\ total_frames' = total_frames + 1
        /\ IF current_state' = "looking"
           THEN /\ frames_looking' = frames_looking + 1
                /\ frames_not_looking' = frames_not_looking
           ELSE /\ frames_looking' = frames_looking
                /\ frames_not_looking' = frames_not_looking + 1]_vars

\* counted as looking although the frame's raw and smoothed values were not
C12_Witness ==
    /\ op = "update" /\ current_state = "looking"
    /\ ret.raw_state = "not_looking" /\ smoothed_state = "not_looking"
    /\ frames_looking >= 2 /\ frames_not_looking >= 1

\* C13: the attention_ratio get_statistics returns is
\* frames_looking / total_frames when total_frames > 0 and 1.0 when it is 0,
\* and lies in [0, 1].
C13_AttentionRatio ==
    op = "get_statistics" =>
        /\ (total_frames = 0 => ret.attention_ratio = Ratio(1, 1))
        /\ (total_frames > 0
            => ret.attention_ratio = Ratio(frames_looking, total_frames))
        /\ ret.attention_ratio.den > 0
        /\ 0 <= ret.attention_ratio.num
        /\ ret.attention_ratio.num <= ret.attention_ratio.den

C13_Witness ==
    /\ op = "get_statistics" /\ total_frames >= 3
    /\ frames_looking >= 1 /\ frames_not_looking >= 1
    /\ ret.attention_ratio = Ratio(frames_looking, total_frames)

\* C14: get_statistics changes no field of the tracker.
C14_StatisticsReadOnly ==
    [][op' = "get_statistics" => UNCHANGED <<config, tracking, statistics>>]_vars

C14_Witness ==
    /\ op = "get_statistics" /\ total_frames >= 2
    /\ state_buffer # <<>> /\ consecutive_count >= 1
    /\ current_state = "not_looking" /\ time_not_looking # 0

\* C15: reset changes none of the five configured options, and the buffer
\* never holds more than smoothing_window entries, before or after a reset.
C15_ResetKeepsConfiguration ==
    [][/\ (op' = "reset" => UNCHANGED config)
       /\ Len(state_buffer') <= smoothing_window']_vars

C15_Witness ==
    /\ op = "reset" /\ total_frames >= 2
    /\ smoothing_window = 2 /\ min_consecutive_frames = 2
    /\ alert_threshold # ALERT_THRESHOLD

\* C16: a freshly constructed tracker is looking, with no alert, a zero
\* timer, a zero consecutive count, an empty buffer and zero counters.
C16_FreshTracker ==
    op = "init" =>
        /\ current_state = "looking" /\ ~alert_active
        /\ time_not_looking = 0 /\ consecutive_count = 0
        /\ state_buffer = <<>>
        /\ total_frames = 0 /\ frames_looking = 0 /\ frames_not_looking = 0

C16_Witness ==
    /\ op = "init" /\ constructed
    /\ smoothing_window = 3 /\ min_consecutive_frames = 3

\* C17: with a valid configuration no call of update raises: each returns a
\* FrameResult.
C17_UpdateNeverFails ==
    /\ ret.type # "exception"
    /\ op = "update" => ret.type = "FrameResult"

\* an absent sample, a clock that went backwards, a window still filling
C17_Witness ==
    /\ op = "update" /\ ret.type = "FrameResult"
    /\ h_absent >= 1 /\ time_not_looking < 0
    /\ Len(state_buffer) < smoothing_window

\* C18: once every update has a not_looking raw classification and a
\* delta_time of at least one second (h_away > 0, which stays so once it
\* is), alert_active eventually becomes true and from then on stays true.
C18_AlertEventuallyStays == <>[](h_away > 0 => alert_active)

C18_Witness ==
    /\ h_away > 0 /\ op = "update" /\ alert_active /\ h_prev_alert
    /\ time_not_looking >= alert_threshold /\ last_update_time > MaxTime

\* C19: the debounce rule.  With s the smoothed value of the update: if s is
\* the state, consecutive_count becomes 0 and previous_state becomes s;
\* otherwise the count is the old one plus 1 if s is previous_state and 1 if
\* not, previous_state becomes s, and the state changes exactly when that
\* count is >= min_consecutive_frames, to s, with consecutive_count 0.
C19_DebounceRule ==
    [][UpdateCalled =>
        LET s == smoothed_state'
            c == IF s = previous_state THEN consecutive_count + 1 ELSE 1
        IN /\ previous_state' = s
           /\ IF s = current_state
              THEN consecutive_count' = 0 /\ current_state' = current_state
              ELSE IF c >= min_consecutive_frames
                   THEN current_state' = s /\ consecutive_count' = 0
                   ELSE /\ current_state' = current_state
                        /\ consecutive_count' = c]_vars

C19_Witness ==
    /\ op = "update" /\ consecutive_count = 2
    /\ previous_state = smoothed_state /\ smoothed_state # current_state

\* C20: when the buffer holds smoothing_window entries after the append, the
\* smoothed value is looking exactly when more than half of them are
\* looking, and the confidence is their number over smoothing_window.
C20_MajorityVote ==
    (op = "update" /\ Len(state_buffer) = smoothing_window) =>
        LET k == Count(state_buffer, "looking")
        IN /\ (smoothed_state = "looking" <=> 2 * k > smoothing_window)
           /\ ret.confidence = Ratio(k, smoothing_window)

\* an even window with exactly half of it looking
C20_Witness ==
    /\ op = "update" /\ smoothing_window = 2
    /\ Len(state_buffer) = 2 /\ Count(state_buffer, "looking") = 1
    /\ smoothed_state = "not_looking" /\ ret.confidence = Ratio(1, 2)

\* C21: on each of the first smoothing_window - 1 updates after construction
\* or reset the buffer is still filling, the smoothed value is the raw
\* classification of the frame and the confidence is 1.0 for looking and 0.0
\* for not_looking; update number smoothing_window is the first whose buffer
\* is full and whose confidence is the vote's.
C21_Bootstrap ==
    (op = "update" /\ h_n <= smoothing_window) =>
        IF h_n < smoothing_window
        THEN /\ Len(state_buffer) = h_n
             /\ smoothed_state = ret.raw_state
             /\ ret.confidence = IF ret.raw_state = "looking"
                                 THEN Ratio(1, 1) ELSE Ratio(0, 1)
        ELSE /\ Len(state_buffer) = smoothing_window
             /\ ret.confidence = Ratio(Count(state_buffer, "looking"),
                                       smoothing_window)
             /\ (smoothed_state = "looking"
                 <=> 2 * Count(state_buffer, "looking") > smoothing_window)

\* the second update after a reset, looking after not_looking: a vote over
\* the two entries would have said not_looking
C21_Witness ==
    /\ op = "update" /\ h_n = 2 /\ smoothing_window = 3 /\ total_frames > 2
    /\ state_buffer = <<"not_looking", "looking">>
    /\ smoothed_state = "looking" /\ ret.confidence = Ratio(1, 1)

\* C22: after n updates since construction or the last reset the buffer is
\* the last min(n, smoothing_window) raw classifications in arrival order:
\* it never holds more than smoothing_window entries and an append to a full
\* buffer drops the oldest one.
C22_WindowIsLastRaws ==
    LET n == Len(h_log.raws)
        k == IF n <= smoothing_window THEN n ELSE smoothing_window
    IN /\ n = h_n
       /\ Len(state_buffer) <= smoothing_window
       /\ state_buffer = SubSeq(h_log.raws, n - k + 1, n)

\* four updates into a window of two, the two oldest gone
C22_Witness ==
    /\ op = "update" /\ smoothing_window = 2
    /\ h_log.raws = <<"looking", "not_looking", "not_looking", "looking">>
    /\ state_buffer = <<"not_looking", "looking">>

\* C23: an update that leaves the state not_looking, the confirming one
\* included, adds its delta_time (the clock now less the clock of the call
\* before) to time_not_looking; one that confirms looking makes it 0; any
\* other update that leaves the state looking leaves it as it was.
C23_TimeAccumulation ==
    [][UpdateCalled =>
        LET delta_time == h_clock' - h_clock
        IN IF current_state' = "not_looking"
           THEN time_not_looking' = time_not_looking + delta_time
           ELSE IF current_state = "not_looking"
                THEN time_not_looking' = 0
                ELSE time_not_looking' = time_not_looking]_vars

\* two updates one second apart, the first pending and the second
\* confirming: only the second second is counted
C23_Witness ==
    /\ op = "update" /\ h_n = 2 /\ total_frames = 2
    /\ min_consecutive_frames = 2 /\ h_changed
    /\ current_state = "not_looking"
    /\ last_update_time = 2 /\ time_not_looking = 1

\* C24: an update turns alert_active on only when it leaves the state
\* not_looking with time_not_looking >= alert_threshold, and every update
\* that leaves them so leaves alert_active true (a timer exactly at the
\* threshold included); with the defaults and update(None, None) once a
\* second, each update that leaves the state not_looking adds 1 to the
\* timer, and the alert is on from the seventh.
C24_AlertAtThreshold ==
    [][UpdateCalled =>
        /\ (alert_active' /\ ~alert_active)
            => (current_state' = "not_looking"
                /\ time_not_looking' >= alert_threshold)
        /\ (current_state' = "not_looking"
             /\ time_not_looking' >= alert_threshold) => alert_active'
        /\ (DefaultsBuilt /\ h_absent' >= 1)
            => /\ (current_state' = "not_looking"
                    => time_not_looking' = time_not_looking + 1)
               /\ (alert_active' <=> h_absent' >= 7)]_vars

\* the seventh update of the scenario: the timer reaches 5.0 exactly and the
\* alert comes on
C24_Witness ==
    /\ DefaultsBuilt /\ op = "update" /\ h_absent = 7
    /\ time_not_looking = alert_threshold
    /\ alert_active /\ ~h_prev_alert

\* C25: __init__ and reset store the clock in last_update_time and so does
\* every update; the delta_time of the first update after construction or
\* reset is the clock of that update less the clock of that construction or
\* reset (seen in the timer when that update confirms not_looking).
C25_ClockSeeded ==
    [][/\ (op' \in {"update", "reset"} => last_update_time' = h_clock')
       /\ (UpdateCalled => last_update_time = h_clock)
       /\ (UpdateCalled /\ h_n = 0 /\ current_state' = "not_looking")
           => time_not_looking' = h_clock' - h_clock]_vars

\* an update, a reset and then an update a second after the reset that
\* confirms not_looking at once
C25_Witness ==
    /\ op = "update" /\ h_n = 1 /\ total_frames = 2
    /\ min_consecutive_frames = 1 /\ current_state = "not_looking"
    /\ last_update_time = 2 /\ time_not_looking = 1

\* C26 (as stated): a get_statistics interleaved with an update returns,
\* in every field of the snapshot, attention_ratio included, a value that
\* field had at some moment of the call.
C26_EveryFieldWasHeld ==
    (op = "get_statistics" /\ in_stats = <<>>) =>
        /\ ret.total_frames \in h_held.total_frames
        /\ ret.frames_looking \in h_held.frames_looking
        /\ ret.frames_not_looking \in h_held.frames_not_looking
        /\ ret.current_state \in h_held.current_state
        /\ ret.time_not_looking \in h_held.time_not_looking
        /\ ret.alert_active \in h_held.alert_active
        /\ \E r \in h_held.attention_ratio :
               r[1] * ret.attention_ratio.den
                   = ret.attention_ratio.num * r[2]

\* C26: a get_statistics interleaved with an update returns, in each of
\* the six fields it copies, a value that field had at some moment of the
\* call, and a total at most one more than the two other counters
\* together; the three need not add up. attention_ratio is 1 when line 130
\* found no frame, and otherwise a frames_looking the field held during the
\* call over a total_frames it held no earlier, which need not be a ratio
\* the two ever had together.
C26_SnapshotFieldsWereHeld ==
    (op = "get_statistics" /\ in_stats = <<>>) =>
        /\ ret.total_frames \in h_held.total_frames
        /\ ret.frames_looking \in h_held.frames_looking
        /\ ret.frames_not_looking \in h_held.frames_not_looking
        /\ ret.current_state \in h_held.current_state
        /\ ret.time_not_looking \in h_held.time_not_looking
        /\ ret.alert_active \in h_held.alert_active
        /\ ret.total_frames
           <= ret.frames_looking + ret.frames_not_looking + 1
        /\ \/ ret.attention_ratio = Ratio(1, 1)
           \/ \E l \in h_held.frames_looking,
                 t \in h_held.total_frames :
                  /\ l <= ret.frames_looking
                  /\ l <= t
                  /\ t > 0
                  /\ t <= ret.total_frames
                  /\ ret.attention_ratio = Ratio(l, t)

\* a snapshot whose counters do not add up and whose ratio is one the
\* counters never had together
C26_Witness ==
    /\ op = "get_statistics" /\ in_stats = <<>>
    /\ ret.total_frames # ret.frames_looking + ret.frames_not_looking
    /\ \A r \in h_held.attention_ratio :
           r[1] * ret.attention_ratio.den # ret.attention_ratio.num * r[2]

\* C27: after construction, every update and every reset, a looking state
\* has time_not_looking = 0 and no alert.
C27_LookingMeansNoTimerNoAlert ==
    (constructed /\ current_state = "looking") =>
        (time_not_looking = 0 /\ ~alert_active)

\* the update that confirms looking while the alert was on
C27_Witness ==
    /\ op = "update" /\ h_changed /\ h_prev_alert
    /\ current_state = "looking"
    /\ time_not_looking = 0 /\ ~alert_active

\* C28: whatever the state before them, once smoothing_window +
\* min_consecutive_frames - 1 updates in a row have had the same raw
\* classification the state is that classification, and it stays so while
\* the run goes on.
C28_BoundedResponse ==
    (h_n >= 1 /\ h_same_run >= smoothing_window + min_consecutive_frames - 1)
        => current_state = h_last_raw

\* the bound met exactly: the state was not_looking, the window of two was
\* full, and the fourth looking frame in a row is the one that confirms
C28_Witness ==
    /\ op = "update" /\ smoothing_window = 2 /\ min_consecutive_frames = 3
    /\ h_last_raw = "looking" /\ h_same_run = 4 /\ h_n > 4
    /\ h_changed /\ current_state = "looking"

\* C29: an update changes the state only if it is at least the
\* min_consecutive_frames-th update since the last update that changed it,
\* or since construction or reset if none has.
C29_MinimumDwell ==
    [][(UpdateCalled /\ current_state' # current_state)
        => h_dwell + 1 >= min_consecutive_frames]_vars

\* the earliest second change: not_looking confirmed on the third update
\* and looking again on the sixth
C29_Witness ==
    /\ op = "update" /\ min_consecutive_frames = 3 /\ h_n = 6
    /\ h_changed /\ current_state = "looking" /\ h_dwell = 0

\* C30: while no delta_time since construction or the last reset has been
\* negative, after every update alert_active is true exactly when the state
\* is not_looking and time_not_looking >= alert_threshold.
C30_AlertIffOverThreshold ==
    (op = "update" /\ h_nonneg) =>
        (alert_active <=> (current_state = "not_looking"
                           /\ time_not_looking >= alert_threshold))

\* an alert already on, kept by an update with delta_time 0 that leaves the
\* timer exactly at the threshold
C30_Witness ==
    /\ op = "update" /\ h_nonneg /\ alert_active /\ h_prev_alert
    /\ current_state = "not_looking"
    /\ time_not_looking = alert_threshold

\* C31: after every update and after reset, consecutive_count is at least 0
\* and below min_consecutive_frames, and it is 0 exactly when previous_state
\* (the pending value) equals current_state.
C31_PendingCount ==
    (op \in {"update", "reset"}) =>
        /\ 0 <= consecutive_count
        /\ consecutive_count < min_consecutive_frames
        /\ (consecutive_count = 0 <=> previous_state = current_state)

\* a pending return to looking one frame short of confirmation, after an
\* earlier confirmed change to not_looking
C31_Witness ==
    /\ op = "update"
    /\ min_consecutive_frames = 3
    /\ consecutive_count = 2
    /\ current_state = "not_looking"
    /\ previous_state = "looking"

====
